---- MODULE Spec2Model ----
(***************************************************************************)
(* Model of match_highlighter.py: split_into_one_minute_videos,            *)
(* video_processer, process_responses, extract_highlights_merged and the   *)
(* processing branch of main.                                              *)
(*                                                                         *)
(* Strings are sequences of one-character strings, so that formatting      *)
(* (f"{n:02d}"), parsing (split, int), the regular expression and the      *)
(* lexicographic sort of file names are computed character by character.   *)
(* video.duration is a float in the source; it is counted here in ticks,   *)
(* TicksPerSec ticks to the second, so that int(video.duration) truncates. *)
(***************************************************************************)
EXTENDS Integers, Sequences, FiniteSets, TLC

VARIABLES
    pc,             \* position of the program
    video_duration, \* VideoFileClip(input_path).duration, in ticks
    service,        \* how the remote service behaves in this run
    written,        \* split: the files written to one_minute_videos, in order
    clips,          \* video_processer: sorted list of clip names
    k,              \* video_processer: index in clips of the clip in hand
    myfile,         \* video_processer: the handle last returned by upload/get
    remote,         \* state of the uploaded file on the remote service
    attempt,        \* video_processer: iterations of the retry loop begun
    response,       \* video_processer: response (None until a call succeeds)
    responses,      \* video_processer: the list returned
    final_times,    \* process_responses: the list returned
    timestamps,     \* extract_highlights_merged: argument
    pre,            \* extract_highlights_merged: argument
    post,           \* extract_highlights_merged: argument
    merged,         \* extract_highlights_merged: merged after the sweep
    subclips        \* extract_highlights_merged: every video.subclip(s, e) call

vars == <<pc, video_duration, service, written, clips, k, myfile,
          remote, attempt, response, responses, final_times, timestamps, pre,
          post, merged, subclips>>

vpVars == <<clips, k, myfile, remote, attempt, response, responses>>
mergeVars == <<timestamps, pre, post, merged, subclips>>

-----------------------------------------------------------------------------
(* Program constants *)

chunk_length == 60
PartWidth == 3
RetryAttempts == 3
DefaultPre == 10
DefaultPost == 10

(* Bounds of the model *)

TicksPerSec == 2
MaxDuration == 150
MaxSplitDuration == 200
LongDuration == 59941
MaxT == 4
MaxPad == 1
MaxLen == 3
MaxMergeDuration == 6

None == "None"

\* response = None (line 77), and a response whose .text is None
NoResponse == <<>>
NoText == <<"None">>

-----------------------------------------------------------------------------
(* Arithmetic and characters *)

Min(a, b) == IF a <= b THEN a ELSE b
Max(a, b) == IF a >= b THEN a ELSE b

Digits == <<"0", "1", "2", "3", "4", "5", "6", "7", "8", "9">>

IsDigit(c) == \E d \in 1..10 : Digits[d] = c

DigitVal(c) == (CHOOSE d \in 1..10 : Digits[d] = c) - 1

RECURSIVE ToDigits(_)
ToDigits(n) ==
    IF n < 10 THEN <<Digits[n + 1]>>
    ELSE ToDigits(n \div 10) \o <<Digits[(n % 10) + 1]>>

\* f"{n:0{w}d}" for n >= 0: decimal digits, zero-filled on the left to width w
\* and never truncated
ZeroPad(n, w) ==
    LET d == ToDigits(n)
    IN IF Len(d) >= w THEN d ELSE [i \in 1..(w - Len(d)) |-> "0"] \o d

\* int(s) for a string of decimal digits
RECURSIVE ParseInt(_)
ParseInt(s) ==
    IF Len(s) = 0 THEN 0
    ELSE ParseInt(SubSeq(s, 1, Len(s) - 1)) * 10 + DigitVal(s[Len(s)])

\* s.split(sep) for a one-character separator: the pieces between
\* consecutive separators, the two ends of s counting as separators
StrSplit(s, sep) ==
    LET cuts == {0, Len(s) + 1} \cup {i \in 1..Len(s) : s[i] = sep}
        Cut(j) == CHOOSE c \in cuts : Cardinality({d \in cuts : d < c}) = j
    IN [j \in 1..(Cardinality(cuts) - 1) |->
            SubSeq(s, Cut(j - 1) + 1, Cut(j) - 1)]

\* the characters below U+0100 for which str.isspace() holds, which
\* str.strip() removes: tab, line feed, vertical tab, form feed, carriage
\* return, U+001C to U+001F, space, U+0085 and U+00A0 (those without an escape
\* are written as the character itself)
IsSpace(c) ==
    c \in {"\t", "\n", "", "\f", "\r", "", "", "", "", " ",
           "", " "}

\* s.strip()
StrStrip(s) ==
    LET keep == {i \in 1..Len(s) : ~IsSpace(s[i])}
    IN IF keep = {} THEN <<>>
       ELSE SubSeq(s, CHOOSE i \in keep : \A j \in keep : i <= j,
                      CHOOSE i \in keep : \A j \in keep : i >= j)

EndsWith(s, suffix) ==
    /\ Len(s) >= Len(suffix)
    /\ SubSeq(s, Len(s) - Len(suffix) + 1, Len(s)) = suffix

\* code points of the characters of a clip name
CodePoints ==
    [c \in {".", "_", "a", "m", "p", "r", "t"} \cup {Digits[d] : d \in 1..10} |->
        CASE c = "." -> 46
          [] c = "_" -> 95
          [] c = "a" -> 97
          [] c = "m" -> 109
          [] c = "p" -> 112
          [] c = "r" -> 114
          [] c = "t" -> 116
          [] OTHER -> 48 + DigitVal(c)]

\* a < b for Python strings: at the first position where they differ the
\* smaller code point decides; a proper prefix comes first
StrLess(a, b) ==
    \/ /\ Len(a) < Len(b)
       /\ \A i \in 1..Len(a) : a[i] = b[i]
    \/ \E i \in 1..Min(Len(a), Len(b)) :
          /\ a[i] # b[i]
          /\ \A j \in 1..(i - 1) : a[j] = b[j]
          /\ CodePoints[a[i]] < CodePoints[b[i]]

-----------------------------------------------------------------------------
(* split_into_one_minute_videos *)

\* duration = int(video.duration)
Duration == video_duration \div TicksPerSec

\* f"part_{part:03d}.mp4"
PartName(p) ==
    <<"p", "a", "r", "t", "_">> \o ZeroPad(p, PartWidth) \o <<".", "m", "p", "4">>

\* ChunkEnd without the min: every window is a full chunk
ChunkEnd_NoMin(s, duration) == s + chunk_length

\* end = min(start + chunk_length, duration)
ChunkEnd(s, duration) == Min(s + chunk_length, duration)

\* range(0, stop, step) for stop >= 0 and step > 0: 0, step, 2*step, ...
\* below stop
PyRange(stop, step) ==
    [i \in 1..((stop + step - 1) \div step) |-> (i - 1) * step]

\* lines 28-44: the files written by the loop; part is 1 in the first
\* iteration and grows by one in each
SplitLoop(duration) ==
    LET starts == PyRange(duration, chunk_length)
    IN [part \in 1..Len(starts) |->
            [name |-> PartName(part), part |-> part, start |-> starts[part],
             end |-> ChunkEnd(starts[part], duration)]]

\* lines 19-47: the folder is emptied, every window is written, return True
SplitVideo ==
    /\ pc = "split"
    /\ written' = SplitLoop(Duration)
    /\ pc' = "vp_start"
    /\ UNCHANGED <<video_duration, service, vpVars, final_times, mergeVars>>

-----------------------------------------------------------------------------
(* The remote service *)

TextNoGoal == <<"[", "]">>
TextOneGoal == <<"[", "0", "0", ":", "0", "0", ":", "1", "2", "]">>
TextTwoGoals ==
    <<"[", "0", "0", ":", "0", "0", ":", "0", "5", ",", " ",
      "0", "0", ":", "0", "0", ":", "3", "0", "]">>
TextGarbage ==
    <<"g", "o", "a", "l", " ", "0", "0", ":", "0", "0", ":", "0", "7", " ",
      "o", "k">>
TextBeyond == <<"[", "0", "0", ":", "0", "3", ":", "2", "0", "]">>
TextPadded ==
    <<" ", " ", "[", "0", "0", ":", "0", "0", ":", "1", "2", "]", "", "\r",
      "\n">>

Texts ==
    {TextNoGoal, TextOneGoal, TextTwoGoals, TextGarbage, TextBeyond, TextPadded}

\* What response.text may be for a clip.  An "arbitrary" service answers any
\* text or no text at all, and its calls may raise; a "last_goal" service
\* never fails and reports one goal, in the last clip written.
AnswerTexts(clip) ==
    IF service = "arbitrary" THEN Texts \cup {NoText}
    ELSE IF clip = written[Len(written)].name THEN {TextOneGoal}
    ELSE {TextNoGoal}

MayFail == service = "arbitrary"

\* the file leaves PROCESSING on the remote side
RemoteProgress ==
    /\ pc \in {"poll", "sleep"}
    /\ remote = "PROCESSING"
    /\ \E s \in {"ACTIVE", "FAILED"} :
          /\ s = "FAILED" => MayFail
          /\ remote' = s
    /\ UNCHANGED <<pc, video_duration, service, written, clips, k, myfile,
                   attempt, response, responses, final_times, mergeVars>>

-----------------------------------------------------------------------------
(* video_processer *)

\* the list that holds, at position r + 1, the name of rank r
ByRank(ranked) ==
    [i \in 1..Cardinality(ranked) |->
        (CHOOSE p \in ranked : p[1] = i - 1)[2]]

\* sorted(names) for a set of distinct strings: each name goes to the place
\* given by the number of names smaller than it
SortedNames(names) ==
    ByRank({<<Cardinality({m \in names : StrLess(m, n)}), n>> : n \in names})

\* sorted([f for f in os.listdir(FOLDER) if f.endswith(".mp4")])
ListClips ==
    SortedNames({written[i].name : i \in
                    {j \in 1..Len(written) :
                        EndsWith(written[j].name, <<".", "m", "p", "4">>)}})

\* lines 51-55
VPStart ==
    /\ pc = "vp_start"
    /\ clips' = ListClips
    /\ responses' = <<>>
    /\ k' = 0
    /\ pc' = "vp_for"
    /\ UNCHANGED <<video_duration, service, written, myfile, remote, attempt,
                   response, final_times, mergeVars>>

\* line 57: the next clip
VPNextClip ==
    /\ pc = "vp_for"
    /\ k < Len(clips)
    /\ k' = k + 1
    /\ pc' = "upload"
    /\ UNCHANGED <<video_duration, service, written, clips, myfile, remote,
                   attempt, response, responses, final_times, mergeVars>>

\* line 98: the loop is over, return responses (main, line 188)
VPReturn ==
    /\ pc = "vp_for"
    /\ k >= Len(clips)
    /\ pc' = "process"
    /\ UNCHANGED <<video_duration, service, written, vpVars, final_times,
                   mergeVars>>

\* line 60: client.files.upload returns a handle
UploadOk ==
    /\ pc = "upload"
    /\ remote' = "PROCESSING"
    /\ myfile' = [name |-> k, state |-> "PROCESSING"]
    /\ pc' = "poll"
    /\ UNCHANGED <<video_duration, service, written, clips, k, attempt,
                   response, responses, final_times, mergeVars>>

\* line 60: client.files.upload raises; nothing catches it
UploadRaise ==
    /\ pc = "upload"
    /\ MayFail
    /\ pc' = "aborted"
    /\ UNCHANGED <<video_duration, service, written, vpVars, final_times,
                   mergeVars>>

\* PollExits without the test of line 67
PollExits_ActiveOnly(state) == state = "ACTIVE"

\* lines 65-68: the two tests that break out of the polling loop
PollExits(state) == state = "ACTIVE" \/ state = "FAILED"

\* lines 64-68: client.files.get, then break
PollBreak ==
    /\ pc = "poll"
    /\ PollExits(remote)
    /\ myfile' = [name |-> myfile.name, state |-> remote]
    /\ attempt' = 0
    /\ response' = NoResponse
    /\ pc' = "analyze"
    /\ UNCHANGED <<video_duration, service, written, clips, k, remote,
                   responses, final_times, mergeVars>>

\* lines 64-69: client.files.get, no break, on to time.sleep(3)
PollWait ==
    /\ pc = "poll"
    /\ ~PollExits(remote)
    /\ myfile' = [name |-> myfile.name, state |-> remote]
    /\ pc' = "sleep"
    /\ UNCHANGED <<video_duration, service, written, clips, k, remote,
                   attempt, response, responses, final_times, mergeVars>>

\* line 64: client.files.get raises; nothing catches it
PollRaise ==
    /\ pc = "poll"
    /\ MayFail
    /\ pc' = "aborted"
    /\ UNCHANGED <<video_duration, service, written, vpVars, final_times,
                   mergeVars>>

\* line 69: time.sleep(3) is over
PollSleep ==
    /\ pc = "sleep"
    /\ pc' = "poll"
    /\ UNCHANGED <<video_duration, service, written, vpVars, final_times,
                   mergeVars>>

\* RetryExit without the break of line 83
RetryExit_NoBreak(ok, n) == n >= RetryAttempts

\* lines 78-85: the retry loop is left by the break after a call that
\* returned (ok) or when range(3) is exhausted after n iterations
RetryExit(ok, n) == ok \/ n >= RetryAttempts

\* lines 80-83: generate_content returns
AnalyzeOk ==
    /\ pc = "analyze"
    /\ \E text \in AnswerTexts(clips[k]) : response' = <<[text |-> text]>>
    /\ attempt' = attempt + 1
    /\ pc' = IF RetryExit(TRUE, attempt + 1) THEN "record" ELSE "analyze"
    /\ UNCHANGED <<video_duration, service, written, clips, k, myfile,
                   remote, responses, final_times, mergeVars>>

\* lines 80-85: generate_content raises, the bare except sleeps 2 seconds
AnalyzeFail ==
    /\ pc = "analyze"
    /\ MayFail
    /\ attempt' = attempt + 1
    /\ pc' = IF RetryExit(FALSE, attempt + 1) THEN "record" ELSE "analyze"
    /\ UNCHANGED <<video_duration, service, written, clips, k, myfile,
                   remote, response, responses, final_times, mergeVars>>

\* line 88
FailureSentinel == <<"[", "]">>

\* lines 87-96
RecordResponse ==
    /\ pc = "record"
    /\ response # NoResponse => response[1].text # NoText
    /\ responses' = Append(responses,
          [clip |-> clips[k], file_id |-> myfile.name,
           response |-> IF response = NoResponse THEN FailureSentinel
                        ELSE StrStrip(response[1].text)])
    /\ pc' = "vp_for"
    /\ UNCHANGED <<video_duration, service, written, clips, k, myfile,
                   remote, attempt, response, final_times, mergeVars>>

\* line 90: response.text is None, so .strip() raises AttributeError
RecordRaise ==
    /\ pc = "record"
    /\ response # NoResponse
    /\ response[1].text = NoText
    /\ pc' = "aborted"
    /\ UNCHANGED <<video_duration, service, written, vpVars, final_times,
                   mergeVars>>

\* lines 63-90 for one clip, when neither upload nor get raises: the state
\* in which the polling loop was left, the iterations of the retry loop begun
\* and the response held after it (None after three calls that raised)
ClipEnds(clip) ==
    LET states == {s \in {"ACTIVE", "FAILED"} :
                      PollExits(s) /\ (s = "FAILED" => MayFail)}
    IN {[state |-> s, attempt |-> a, response |-> <<[text |-> t]>>] :
            s \in states,
            a \in (IF MayFail THEN 1..RetryAttempts ELSE {1}),
            t \in AnswerTexts(clip)}
       \cup {[state |-> s, attempt |-> RetryAttempts, response |-> NoResponse] :
                s \in (IF MayFail THEN states ELSE {})}

\* lines 87-90: output_text is computed without an AttributeError
Completes(clip) ==
    {e \in ClipEnds(clip) :
        e.response = NoResponse \/ e.response[1].text # NoText}

\* lines 87-90: output_text
Recorded(e) ==
    IF e.response = NoResponse THEN FailureSentinel
    ELSE StrStrip(e.response[1].text)

\* what a run of video_processer may record for a clip: the stripped text of
\* a call that returned, or the sentinel after three calls that raised
RecordedTexts(clip) == {Recorded(e) : e \in Completes(clip)}

\* the texts recorded for the first m clips (an arbitrary service answers
\* from the same set for every clip)
RecordedLists(sorted, m) ==
    IF m = 0 THEN {<<>>}
    ELSE IF MayFail THEN [1..m -> RecordedTexts(sorted[1])]
    ELSE {[i \in 1..m |-> CHOOSE t \in RecordedTexts(sorted[i]) : TRUE]}

\* lines 92-96 for the first m clips: entry i holds the i-th clip, the handle
\* of the i-th upload and the text recorded for it
Entries(sorted, texts, m) ==
    [i \in 1..m |-> [clip |-> sorted[i], file_id |-> i, response |-> texts[i]]]

\* myfile, the remote state, attempt and response once clip j is recorded
\* with end e
After(j, e) ==
    [myfile |-> [name |-> j, state |-> e.state], remote |-> e.state,
     attempt |-> e.attempt, response |-> e.response]

\* lines 50-98: the states in which video_processer returns responses, loc0
\* being myfile, the remote state, attempt and response when it is called
Returns(sorted, loc0) ==
    LET n == Len(sorted)
    IN IF n = 0
       THEN {[pc |-> "process", k |-> 0, loc |-> loc0, responses |-> <<>>]}
       ELSE {[pc |-> "process", k |-> n, loc |-> After(n, p[2]),
              responses |-> Entries(sorted, p[1], n)] :
                p \in {q \in RecordedLists(sorted, n) \X Completes(sorted[n]) :
                          Recorded(q[2]) = q[1][n]}}

-----------------------------------------------------------------------------
(* process_responses *)

OffsetStep == 60

\* lines 102-104
time_to_sec(t) ==
    LET f == StrSplit(t, ":")
    IN ParseInt(f[1]) * 3600 + ParseInt(f[2]) * 60 + ParseInt(f[3])

\* lines 106-110
sec_to_time(sec) ==
    ZeroPad(sec \div 3600, 2) \o <<":">> \o ZeroPad((sec % 3600) \div 60, 2)
        \o <<":">> \o ZeroPad(sec % 60, 2)

\* \d{2}:\d{2}:\d{2} matches at position i
MatchesAt(text, i) ==
    /\ i + 7 <= Len(text)
    /\ IsDigit(text[i]) /\ IsDigit(text[i + 1]) /\ text[i + 2] = ":"
    /\ IsDigit(text[i + 3]) /\ IsDigit(text[i + 4]) /\ text[i + 5] = ":"
    /\ IsDigit(text[i + 6]) /\ IsDigit(text[i + 7])

\* re.findall(r"\d{2}:\d{2}:\d{2}", text): leftmost matches, not overlapping
RECURSIVE FindAllFrom(_, _)
FindAllFrom(text, i) ==
    IF i > Len(text) THEN <<>>
    ELSE IF MatchesAt(text, i)
         THEN <<SubSeq(text, i, i + 7)>> \o FindAllFrom(text, i + 8)
         ELSE FindAllFrom(text, i + 1)

FindAll(text) == FindAllFrom(text, 1)

\* line 114: offset = i * 60, i counted from 0 by enumerate
EntryOffset(i) == (i - 1) * OffsetStep

\* lines 115-117 for the i-th entry (i counted from 1)
EntryTimes(rs, i) ==
    LET found == FindAll(rs[i].response)
    IN [j \in 1..Len(found) |->
            sec_to_time(time_to_sec(found[j]) + EntryOffset(i))]

\* the appends of entries lo..hi, in order (split in halves so that the
\* evaluation stays shallow on long lists)
RECURSIVE TimesOf(_, _, _)
TimesOf(rs, lo, hi) ==
    IF lo > hi THEN <<>>
    ELSE IF lo = hi THEN EntryTimes(rs, lo)
    ELSE LET mid == (lo + hi) \div 2
         IN TimesOf(rs, lo, mid) \o TimesOf(rs, mid + 1, hi)

process_responses(rs) == TimesOf(rs, 1, Len(rs))

\* main, lines 191-197 and 208-209
ProcessResponses ==
    /\ pc = "process"
    /\ LET times == process_responses(responses)
       IN /\ final_times' = times
          /\ timestamps' = IF times # <<>> THEN times ELSE timestamps
          /\ pc' = IF times # <<>> THEN "extract" ELSE "no_goal"
    /\ UNCHANGED <<video_duration, service, written, vpVars, pre, post,
                   merged, subclips>>

-----------------------------------------------------------------------------
(* extract_highlights_merged *)

\* lines 123-125
t_to_sec(t) ==
    LET f == StrSplit(t, ":")
    IN ParseInt(f[1]) * 3600 + ParseInt(f[2]) * 60 + ParseInt(f[3])

\* lines 127-130
RawIntervals(ts, pr, po) ==
    [i \in 1..Len(ts) |-> <<t_to_sec(ts[i]) - pr, t_to_sec(ts[i]) + po>>]

\* order of Python tuples (s, e)
TupleLeq(a, b) == a[1] < b[1] \/ (a[1] = b[1] /\ a[2] <= b[2])

RECURSIVE InsertSorted(_, _)
InsertSorted(sorted, x) ==
    IF sorted = <<>> THEN <<x>>
    ELSE IF TupleLeq(sorted[Len(sorted)], x) THEN Append(sorted, x)
    ELSE Append(InsertSorted(SubSeq(sorted, 1, Len(sorted) - 1), x),
                sorted[Len(sorted)])

RECURSIVE SortFrom(_, _)
SortFrom(list, n) ==
    IF n = 0 THEN <<>> ELSE InsertSorted(SortFrom(list, n - 1), list[n])

\* SortIntervals without the sort
SortIntervals_None(list) == list

\* line 132: raw_intervals.sort()
SortIntervals(list) == SortFrom(list, Len(list))

\* Joins with < for <=, and Joins taking a gap of one second for a touch
Joins_Strict(s, last_e) == s < last_e
Joins_Adjacent(s, last_e) == s <= last_e + 1

\* line 139: the next interval is merged into the last one
Joins(s, last_e) == s <= last_e

\* lines 135-142: one iteration of the sweep
SweepStep(acc, iv) ==
    IF acc = <<>> THEN <<iv>>
    ELSE LET last == acc[Len(acc)]
         IN IF Joins(iv[1], last[2])
            THEN [acc EXCEPT ![Len(acc)] = <<last[1], Max(last[2], iv[2])>>]
            ELSE Append(acc, iv)

\* lines 133-142
RECURSIVE Sweep(_, _)
Sweep(list, n) ==
    IF n = 0 THEN <<>> ELSE SweepStep(Sweep(list, n - 1), list[n])

\* lines 127-142
MergedOf(ts, pr, po) ==
    LET raw == SortIntervals(RawIntervals(ts, pr, po))
    IN Sweep(raw, Len(raw))

\* lines 146-149: the (s, e) of each video.subclip call, in ticks
ClipOf(iv, dur) ==
    [s |-> Max(0, iv[1]) * TicksPerSec,
     e |-> Min(dur, iv[2] * TicksPerSec)]

SubclipsOf(m, dur) == [i \in 1..Len(m) |-> ClipOf(m[i], dur)]

\* lines 127-149
ExtractHighlightsMerged ==
    /\ pc = "extract"
    /\ LET m == MergedOf(timestamps, pre, post)
       IN /\ merged' = m
          /\ subclips' = SubclipsOf(m, video_duration)
    /\ pc' = "done"
    /\ UNCHANGED <<video_duration, service, written, vpVars, final_times,
                   timestamps, pre, post>>

-----------------------------------------------------------------------------
(* Initial states *)

\* main has written the upload to input_video.mp4 and the button of line 183
\* is pressed; the output folder has just been emptied (lines 20-22)
Boot(durations, services) ==
    /\ pc = "split"
    /\ video_duration \in durations
    /\ service \in services
    /\ written = <<>>
    /\ clips = <<>>
    /\ k = 0
    /\ myfile = [name |-> 0, state |-> None]
    /\ remote = None
    /\ attempt = 0
    /\ response = NoResponse
    /\ responses = <<>>
    /\ final_times = <<>>
    /\ timestamps = <<>>
    /\ pre = DefaultPre
    /\ post = DefaultPost
    /\ merged = <<>>
    /\ subclips = <<>>

SplitDurations == 0..(MaxSplitDuration * TicksPerSec + TicksPerSec - 1)

SplitInit == Boot(SplitDurations, {"arbitrary"})

SplitNext == SplitVideo

SplitSpec == SplitInit /\ [][SplitNext]_vars

\* the whole run of main on short videos, with an arbitrary service
PipelineDurations ==
    {0, 45 * TicksPerSec, chunk_length * TicksPerSec,
     (chunk_length + 1) * TicksPerSec + 1, MaxDuration * TicksPerSec + 1}

Init == Boot(PipelineDurations, {"arbitrary"})

VideoProcesserStep ==
    \/ VPStart
    \/ VPNextClip
    \/ VPReturn
    \/ UploadOk
    \/ UploadRaise
    \/ PollBreak
    \/ PollWait
    \/ PollRaise
    \/ PollSleep
    \/ AnalyzeOk
    \/ AnalyzeFail
    \/ RecordResponse
    \/ RecordRaise

Next ==
    \/ SplitVideo
    \/ VideoProcesserStep
    \/ RemoteProgress
    \/ ProcessResponses
    \/ ExtractHighlightsMerged

Spec == Init /\ [][Next]_vars

\* The program is sequential: while split_into_one_minute_videos or
\* video_processer has a next step, it is taken.  The remote service is
\* assumed to finish processing every uploaded file.
FairSpec ==
    Spec /\ WF_vars(SplitVideo \/ VideoProcesserStep) /\ WF_vars(RemoteProgress)

\* process_responses and what follows it in main, from every state in which
\* main calls it (line 191): the files are those split_into_one_minute_videos
\* wrote, and clips, k, myfile, attempt, response and responses are as
\* video_processer left them when it returned.  The videos are the short ones
\* with an arbitrary service, and one of more than 999 minutes with a service
\* that reports one goal, in the last minute.
LongInit ==
    /\ pc = "process"
    /\ \/ /\ video_duration \in PipelineDurations
          /\ service = "arbitrary"
       \/ /\ video_duration = LongDuration * TicksPerSec
          /\ service = "last_goal"
    /\ written = SplitLoop(Duration)
    /\ clips = ListClips
    /\ \E o \in Returns(clips,
                        [myfile |-> [name |-> 0, state |-> None],
                         remote |-> None, attempt |-> 0,
                         response |-> NoResponse]) :
          /\ k = o.k
          /\ myfile = o.loc.myfile
          /\ remote = o.loc.remote
          /\ attempt = o.loc.attempt
          /\ response = o.loc.response
          /\ responses = o.responses
    /\ final_times = <<>>
    /\ timestamps = <<>>
    /\ pre = DefaultPre
    /\ post = DefaultPost
    /\ merged = <<>>
    /\ subclips = <<>>

LongNext ==
    \/ ProcessResponses
    \/ ExtractHighlightsMerged

LongSpec == LongInit /\ [][LongNext]_vars

\* extract_highlights_merged called on its own, on any timestamps
RECURSIVE SeqsUpTo(_, _)
SeqsUpTo(S, n) ==
    IF n = 0 THEN {<<>>}
    ELSE LET shorter == SeqsUpTo(S, n - 1)
         IN shorter \cup {Append(q, x) : q \in shorter, x \in S}

MergeTimestamps == {sec_to_time(c) : c \in 0..MaxT}

\* no media, a duration that cuts the windows short and ends between two
\* seconds, and one long enough for the latest window
MergeDurations ==
    {0, (MaxMergeDuration \div 2) * TicksPerSec + 1,
     MaxMergeDuration * TicksPerSec}

MergeInit ==
    /\ pc = "extract"
    /\ video_duration \in MergeDurations
    /\ service = "arbitrary"
    /\ written = <<>>
    /\ clips = <<>>
    /\ k = 0
    /\ myfile = [name |-> 0, state |-> None]
    /\ remote = None
    /\ attempt = 0
    /\ response = NoResponse
    /\ responses = <<>>
    /\ final_times = <<>>
    /\ timestamps \in SeqsUpTo(MergeTimestamps, MaxLen) \ {<<>>}
    /\ pre \in 0..MaxPad
    /\ post \in 0..MaxPad
    /\ merged = <<>>
    /\ subclips = <<>>

MergeNext == ExtractHighlightsMerged

MergeSpec == MergeInit /\ [][MergeNext]_vars

-----------------------------------------------------------------------------
(* Properties *)

Returned == {"process", "extract", "no_goal", "done"}

\* C1: the intervals cut by extract_highlights_merged are in ascending order
\* of start and strictly separated (i.end < j.start for consecutive i, j), and
\* any two padded windows that overlap or touch lie in one merged interval.
C1_StrictlySeparated ==
    pc = "done" =>
        /\ Len(subclips) = Len(merged)
        /\ \A i \in 1..(Len(subclips) - 1) :
              /\ subclips[i].s < subclips[i + 1].s
              /\ subclips[i].e < subclips[i + 1].s
              /\ merged[i][2] < merged[i + 1][1]
        /\ \A a, b \in 1..Len(timestamps) :
              LET ca == t_to_sec(timestamps[a])
                  cb == t_to_sec(timestamps[b])
              IN (a <= b /\ ca - pre <= cb + post /\ cb - pre <= ca + post) =>
                    \E i \in 1..Len(merged) :
                        /\ merged[i][1] <= ca - pre /\ ca + post <= merged[i][2]
                        /\ merged[i][1] <= cb - pre /\ cb + post <= merged[i][2]

C1_Witness ==
    /\ pc = "done"
    /\ Len(timestamps) = 3
    /\ Len(subclips) = 2
    /\ \E a, b \in 1..3 :
          t_to_sec(timestamps[a]) + post = t_to_sec(timestamps[b]) - pre

\* C2: every interval handed to video.subclip satisfies
\* 0 <= start < end <= media duration (degenerate intervals are dropped).
C2_CutsWithinMedia ==
    pc = "done" =>
        \A i \in 1..Len(subclips) :
            /\ 0 <= subclips[i].s
            /\ subclips[i].s < subclips[i].e
            /\ subclips[i].e <= video_duration

\* the responses in chunk-index order: for each window, the response recorded
\* for the clip written for it
ResponseOf(name) ==
    (CHOOSE i \in 1..Len(responses) : responses[i].clip = name)

\* chunk.start + H*3600 + M*60 + S for every match of window i, in order
WindowTimes(i) ==
    LET found == FindAll(responses[ResponseOf(written[i].name)].response)
    IN [j \in 1..Len(found) |->
            written[i].start + ParseInt(SubSeq(found[j], 1, 2)) * 3600
                + ParseInt(SubSeq(found[j], 4, 5)) * 60
                + ParseInt(SubSeq(found[j], 7, 8))]

RECURSIVE WindowTimesOf(_, _)
WindowTimesOf(lo, hi) ==
    IF lo > hi THEN <<>>
    ELSE IF lo = hi THEN WindowTimes(lo)
    ELSE LET mid == (lo + hi) \div 2
         IN WindowTimesOf(lo, mid) \o WindowTimesOf(mid + 1, hi)

\* C3: the list returned by process_responses is the concatenation, in
\* chunk-index order, of chunk.start + H*3600 + M*60 + S for every match of
\* each chunk's response, chunk.start being the start of the window cut for
\* that chunk.
C3_OffsetsAreChunkStarts ==
    pc \in Returned \ {"process"} =>
        [i \in 1..Len(final_times) |-> time_to_sec(final_times[i])]
            = WindowTimesOf(1, Len(written))

\* C4: the windows cut by split_into_one_minute_videos partition
\* [0, duration): the first starts at 0, each starts where the previous one
\* ends, each has start < end, all but the last are 60 long, the last ends at
\* duration and is at most 60 long, parts are numbered 1, 2, 3, ..., and a
\* duration of 0 yields no window.
C4_WindowsPartition ==
    /\ \A i \in 1..Len(written) :
          /\ written[i].part = i
          /\ written[i].start < written[i].end
          /\ written[i].end <= Duration
          /\ written[i].start = IF i = 1 THEN 0 ELSE written[i - 1].end
          /\ i < Len(written) => written[i].end - written[i].start = 60
          /\ written[i].end - written[i].start <= 60
    /\ pc # "split" =>
          /\ Duration = 0 => written = <<>>
          /\ Duration > 0 =>
                /\ written # <<>>
                /\ written[Len(written)].end = Duration

C4_Witness ==
    /\ pc = "vp_start"
    /\ Len(written) = 3
    /\ written[3].end - written[3].start < 60

\* C5: generate_content is attempted at most 3 times per chunk and never
\* again after a call that returned; when all 3 attempts fail the chunk's
\* recorded response is "[]", which holds no timestamp, and nothing is raised.
C5_RetryBudget ==
    [][/\ attempt' # attempt /\ pc = "analyze" =>
             /\ attempt < 3
             /\ attempt' = attempt + 1
             /\ response = NoResponse
       /\ pc = "record" /\ response = NoResponse =>
             /\ attempt = 3
             /\ pc' = "vp_for"
             /\ responses'[Len(responses')].response = <<"[", "]">>
             /\ FindAll(responses'[Len(responses')].response) = <<>>]_vars

C5_Witness ==
    /\ pc = "vp_for"
    /\ k = 2
    /\ Len(responses) = 2
    /\ attempt = 3
    /\ response = NoResponse
    /\ responses[2].response = FailureSentinel

\* C6: a failure of one chunk (upload error, FAILED file, analysis errors)
\* never aborts the run, and video_processer returns exactly one response per
\* chunk, in chunk-index order.
C6_NoChunkFailureAborts ==
    /\ pc # "aborted"
    /\ pc \in Returned =>
          /\ Len(responses) = Len(written)
          /\ \A i \in 1..Len(written) : responses[i].clip = written[i].name

\* the chunk files in the folder: none is removed once written
ChunkFiles == {written[i].name : i \in 1..Len(written)}

\* C7: chunks are handled one at a time: at no point does more than one
\* chunk's media file exist, the file of chunk k + 1 is produced only after
\* chunk k was uploaded, polled, analyzed and released, and no chunk file is
\* left after processing.
C7_OneChunkAtATime ==
    /\ Cardinality(ChunkFiles) <= 1
    /\ Len(written) >= 2 => Len(responses) >= Len(written) - 1
    /\ pc \in Returned => ChunkFiles = {}

\* the list with the elements at positions i and j exchanged
Exchanged(list, i, j) == [list EXCEPT ![i] = list[j], ![j] = list[i]]

\* C8: the merged intervals depend only on the multiset of timestamps: two
\* inputs that are permutations of each other yield the same interval
\* sequence.  Every input up to the bounds is an initial state and every
\* permutation is a chain of exchanges of two positions, so it is stated for
\* each exchange.
C8_OrderIndependent ==
    pc = "done" =>
        \A i, j \in 1..Len(timestamps) :
            i < j =>
                SubclipsOf(MergedOf(Exchanged(timestamps, i, j), pre, post),
                           video_duration) = subclips

C8_Witness ==
    /\ pc = "done"
    /\ Len(timestamps) = 3
    /\ t_to_sec(timestamps[1]) > t_to_sec(timestamps[3])
    /\ t_to_sec(timestamps[3]) > t_to_sec(timestamps[2])
    /\ Len(subclips) = 2

\* the midpoint of each cut, as a timestamp
Midpoints(cuts) ==
    [i \in 1..Len(cuts) |->
        sec_to_time(((cuts[i].s + cuts[i].e) \div 2) \div TicksPerSec)]

ExactMidpoints(cuts) ==
    \A i \in 1..Len(cuts) :
        /\ cuts[i].s < cuts[i].e
        /\ (cuts[i].s + cuts[i].e) % (2 * TicksPerSec) = 0

Remerged ==
    SubclipsOf(MergedOf(Midpoints(subclips), pre, post), video_duration)

\* C9 as stated: merging the midpoints of the intervals of merge(X) yields
\* merge(X) again, for every X (taken where every cut is a proper interval
\* whose midpoint is a whole second).
C9_Idempotent ==
    pc = "done" /\ ExactMidpoints(subclips) => Remerged = subclips

\* every merged interval is one padded window that the clamp leaves unchanged
SingleWindows ==
    \A i \in 1..Len(merged) :
        /\ merged[i][2] - merged[i][1] = pre + post
        /\ 0 <= merged[i][1]
        /\ merged[i][2] * TicksPerSec <= video_duration

WellSeparated ==
    \A a, b \in 1..Len(timestamps) :
        a # b =>
            \/ t_to_sec(timestamps[a]) + post < t_to_sec(timestamps[b]) - pre
            \/ t_to_sec(timestamps[b]) + post < t_to_sec(timestamps[a]) - pre

\* C9 as amended: timestamps whose padded windows are pairwise strictly
\* separated yield one cut per timestamp, its window clamped to the media, in
\* ascending order; and when pre = post and every merged interval is a single
\* padded window left unchanged by the clamp, merging the midpoints of the
\* cuts yields the same cuts again.
C9_StableOnSingleWindows ==
    pc = "done" =>
        /\ WellSeparated =>
              /\ Len(subclips) = Len(timestamps)
              /\ \A i \in 1..(Len(subclips) - 1) :
                    subclips[i].s < subclips[i + 1].s
              /\ \A a \in 1..Len(timestamps) :
                    \E i \in 1..Len(subclips) :
                        /\ subclips[i].s =
                              Max(0, t_to_sec(timestamps[a]) - pre) * TicksPerSec
                        /\ subclips[i].e =
                              Min(video_duration,
                                  (t_to_sec(timestamps[a]) + post) * TicksPerSec)
        /\ pre = post /\ SingleWindows => Remerged = subclips

C9_Witness ==
    /\ pc = "done"
    /\ WellSeparated
    /\ SingleWindows
    /\ pre = post
    /\ pre > 0
    /\ Len(timestamps) = 2
    /\ t_to_sec(timestamps[1]) > t_to_sec(timestamps[2])

\* C10: video_processer terminates when every uploaded file eventually
\* becomes ACTIVE or FAILED and every call returns or raises; the polling
\* loop is left for the analysis only in state ACTIVE or FAILED (so a file
\* that never leaves PROCESSING keeps every later chunk from being
\* processed), it goes on polling only in another state, and the retry loop
\* makes at most 3 attempts.
C10_Terminates ==
    /\ <>(pc \in Returned \cup {"aborted"})
    /\ [][/\ pc \in {"poll", "sleep"} /\ pc' \notin {"poll", "sleep", "aborted"} =>
                /\ remote \in {"ACTIVE", "FAILED"}
                /\ pc' = "analyze"
          /\ pc = "poll" /\ pc' = "sleep" => remote \notin {"ACTIVE", "FAILED"}
          /\ k' # k => pc = "vp_for" \/ pc = "vp_start"
          /\ attempt' <= 3]_vars

C10_Witness ==
    /\ pc = "process"
    /\ Len(responses) = 3
    /\ myfile.state = "FAILED"

====
